---- MODULE Spec2Model ----
(***************************************************************************)
(* Verification model of the warehouse visualizer repository.              *)
(*                                                                         *)
(* The parts of the program are modelled each with its own specification   *)
(* over the shared variables:                                              *)
(*   SpecDb     the schema scripts: workstation_table, warehouse_pallet_   *)
(*              table with their sample rows, pallet INSERT / DELETE, and  *)
(*              the two search-id queries;                                 *)
(*   SpecConv   the unit converters of the four components;                *)
(*   SpecUnits  PalletConfigComponent, the pallet form;                    *)
(*   SpecForm   WarehouseVisualizerComponent: the workstation list, the    *)
(*              side configurations, their custom_gaps and the pallets;    *)
(*   SpecLayout WarehouseVisualizerComponent and WarehouseService: the     *)
(*              layout and validation requests and their answers;          *)
(*   SpecCount  WarehouseVisualizerComponent: num_workstations, its blur   *)
(*              handler, the database load and generateLayout;             *)
(*   SpecWc     WorkstationConfigComponent: the aisle gaps of one side;    *)
(*   SpecDraw   VisualizationComponent.drawPallet;                         *)
(*   SpecViz    VisualizationComponent: the view toggle, the switchView    *)
(*              timers, ngOnDestroy and the objects of the scene.          *)
(***************************************************************************)
EXTENDS Integers, Sequences, FiniteSets, TLC

VARIABLES
    \* ---- schema scripts (src/unnamed/part_000)
    script,             \* which of the two scripts created the tables (1 or 2)
    workstation_table,  \* set of rows [workstation_id, workstation_index]
    pallet_table,       \* set of rows of warehouse_pallet_table
    nextPalletId,       \* the SERIAL sequence of pallet_id
    deletes,            \* number of DELETEs run so far (bounds the model)
    \* ---- PalletConfigComponent (src/unnamed/part_001)
    pallet,             \* the bound PalletConfig: length_cm, width_cm, height_cm, weight
    displayLength, displayWidth, displayHeight, displayWeight,
    currentLengthUnit, currentWidthUnit, currentHeightUnit, currentWeightUnit,
    formOps,            \* number of form events handled so far (bounds the model)
    \* ---- one application of the unit converters to an input
    probe,              \* [value, unit, applied, and the result of each converter]
    \* ---- WarehouseVisualizerComponent (src/unnamed/part_003)
    dbLoad,             \* "pending" until getWarehouseFromDb answers, then "done"
    num_workstations,   \* warehouseConfig.num_workstations
    workstation_configs,\* warehouseConfig.workstation_configs
    workstations,       \* the UI workstation array
    previousNumWorkstations,
    formSteps,          \* number of user events handled so far (bounds the model)
    countSteps,         \* number of num_workstations events so far (bounds the model)
    countLast,          \* the last num_workstations event handled
    \* ---- WorkstationConfigComponent
    aisleConfig,        \* the bound SideAisleConfig
    aisleGaps,          \* array of {value, unit}
    wcLast,             \* the last handler run and the events it emitted
    wcSteps,            \* number of events handled so far (bounds the model)
    \* ---- WarehouseVisualizerComponent: layout requests
    warehouse_dimensions, \* warehouseConfig.warehouse_dimensions
    layoutData,         \* the layout shown, or Null
    warehouseDimensions,\* the dimensions handed to the visualization, or Null
    statusMessage,      \* the status line
    requests,           \* HTTP requests sent and not yet answered
    lastAnswer,         \* the last answer a layout or validation request got
    layoutSteps,        \* number of requests sent so far (bounds the model)
    \* ---- VisualizationComponent.drawPallet applied to one pallet and cell
    draw,               \* [the pallet's dims, the cell's size, the mesh drawn]
    \* ---- VisualizationComponent: view mode, timers, destruction, scene
    is3DView,           \* the _is3DView field behind the is3DView input
    isViewInitialized,
    viewMode,           \* "3d" or "2d"
    inputLayoutData,    \* whether the layoutData input holds a layout
    wireframeMode,
    timers,             \* modes of the switchView timers set and not yet run
    animationFrame,     \* "none", "requested" or "cancelled"
    renderer,           \* "none", "live" or "disposed"
    pixiApp,            \* "none", "live" or "undefined" (destroyed)
    scene,              \* [created, objects: count per name, sprites]
    labelSprites,       \* array of label sprites
    envCount,           \* number of setupEnvironment calls so far
    destroyed,          \* ngOnDestroy has run
    workAfterDestroy,   \* rendering methods whose body ran after ngOnDestroy
    lastRedraw,         \* the view redrawn last: "none", "3d" or "2d"
    lastTimer,          \* the mode of the switchView timer that ran last
    vizSteps            \* number of events handled so far (bounds the model)

dbVars == <<script, workstation_table, pallet_table, nextPalletId, deletes>>

unitVars == <<pallet, displayLength, displayWidth, displayHeight, displayWeight,
              currentLengthUnit, currentWidthUnit, currentHeightUnit,
              currentWeightUnit, formOps>>

formVars == <<dbLoad, num_workstations, workstation_configs, workstations,
              previousNumWorkstations, formSteps, countSteps, countLast>>

wcVars == <<aisleConfig, aisleGaps, wcLast, wcSteps>>

layoutVars == <<warehouse_dimensions, layoutData, warehouseDimensions,
                statusMessage, requests, lastAnswer, layoutSteps>>

vizVars == <<is3DView, isViewInitialized, viewMode, inputLayoutData, wireframeMode,
             timers, animationFrame, renderer, pixiApp, scene, labelSprites,
             envCount, destroyed, workAfterDestroy, lastRedraw, lastTimer, vizSteps>>

vars == <<dbVars, unitVars, probe, formVars, wcVars, layoutVars, draw, vizVars>>

(***************************************************************************)
(* Bounds of the model.                                                    *)
(***************************************************************************)
MaxInserts == 2
MaxDeletes == 1
MaxFormOps == 2
MaxProbeValue == 6
MaxWorkstations == 2
MaxFormSteps == 2
MaxAisles == 2
MaxDepth == 2
MaxWcSteps == 3
MaxRequests == 2
MaxInFlight == 1
MaxCountSteps == 4
MaxVizSteps == 4

(***************************************************************************)
(* Part 1: the schema scripts.                                             *)
(***************************************************************************)
Sides == {"left", "right"}

\* One row of warehouse_pallet_table: the key columns the queries read.
Pal(id, ws, side, f, r, a, d) ==
    [pallet_id |-> id, workstation_id |-> ws, side |-> side,
     floor_idx |-> f, row_idx |-> r, aisle_idx |-> a, deep_idx |-> d]

\* INSERT INTO workstation_table: workstation_id is SERIAL (1, 2); the first
\* script stores workstation_index 0 and 1, the second 1 and 2.
SampleWorkstations(s) ==
    IF s = 1
    THEN {[workstation_id |-> 1, workstation_index |-> 0],
          [workstation_id |-> 2, workstation_index |-> 1]}
    ELSE {[workstation_id |-> 1, workstation_index |-> 1],
          [workstation_id |-> 2, workstation_index |-> 2]}

\* INSERT INTO warehouse_pallet_table: the ten sample pallets, pallet_id
\* SERIAL in statement order; columns floor_idx, row_idx, aisle_idx, deep_idx.
\* The two scripts differ in pallets 6 and 9.
SamplePallets(s) ==
    { Pal(1, 1, "left", 0, 0, 0, 0),
      Pal(2, 1, "left", 1, 0, 0, 0),
      Pal(3, 1, "left", 2, 0, 0, 0),
      Pal(4, 1, "left", 0, 1, 1, 0),
      Pal(5, 1, "right", 0, 0, 0, 0),
      IF s = 1 THEN Pal(6, 1, "right", 3, 3, 0, 1)
               ELSE Pal(6, 1, "right", 3, 3, 0, 0),
      Pal(7, 2, "left", 0, 4, 0, 0),
      Pal(8, 2, "left", 1, 2, 1, 0),
      IF s = 1 THEN Pal(9, 2, "right", 2, 4, 0, 1)
               ELSE Pal(9, 2, "right", 2, 4, 1, 0),
      Pal(10, 2, "right", 1, 3, 0, 0) }

\* Index values an inserted pallet may carry (CHECK (..._idx >= 0)).
InsertFloors == {0}
InsertRows   == {0}
InsertAisles == {0}
InsertDeeps  == {0, 1}

\* PARTITION BY p.workstation_id, p.side, p.floor_idx, p.row_idx, p.aisle_idx
PartitionNoSide(p, q) ==
    /\ p.workstation_id = q.workstation_id
    /\ p.floor_idx = q.floor_idx
    /\ p.row_idx = q.row_idx
    /\ p.aisle_idx = q.aisle_idx

SamePartition(p, q) ==
    /\ p.workstation_id = q.workstation_id
    /\ p.side = q.side
    /\ p.floor_idx = q.floor_idx
    /\ p.row_idx = q.row_idx
    /\ p.aisle_idx = q.aisle_idx

\* ORDER BY p.pallet_id: p's row comes at or before q's.
OrderDesc(p, q) == p.pallet_id >= q.pallet_id

OrderByPalletId(p, q) == p.pallet_id <= q.pallet_id

\* ROW_NUMBER() OVER (PARTITION BY ... ORDER BY p.pallet_id): the 1-based
\* position of p among the rows of its partition, in the order of the window.
RowNumber(p, T) ==
    Cardinality({q \in T : SamePartition(p, q) /\ OrderByPalletId(q, p)})

\* JOIN workstation_table w ON p.workstation_id = w.workstation_id
WorkstationOf(p, W) == CHOOSE w \in W : w.workstation_id = p.workstation_id

\* CONCAT('WS', n, '-R', n, '-C', n, '-F', n, '-P', n): the five numbers of
\* the string, which the fixed letters between them keep apart.
Address(ws, r, c, f, p) == [WS |-> ws, R |-> r, C |-> c, F |-> f, P |-> p]

\* First script, "Pallet Data with Search IDs".
SearchId1(p, T, W) ==
    Address(WorkstationOf(p, W).workstation_index + 1,
            p.row_idx + 1, p.aisle_idx + 1, p.floor_idx + 1, RowNumber(p, T))

\* Second script, "pallet locations in a format similar to the search IDs":
\* workstation_index as stored.
SearchId2(p, T, W) ==
    Address(WorkstationOf(p, W).workstation_index,
            p.row_idx + 1, p.aisle_idx + 1, p.floor_idx + 1, RowNumber(p, T))

InitDb ==
    /\ script \in {1, 2}
    /\ workstation_table = SampleWorkstations(script)
    /\ pallet_table = SamplePallets(script)
    /\ nextPalletId = Cardinality(SamplePallets(script)) + 1
    /\ deletes = 0

\* INSERT INTO warehouse_pallet_table (...) VALUES (...): pallet_id comes
\* from the SERIAL sequence, workstation_id REFERENCES workstation_table.
InsertPallet ==
    /\ nextPalletId <= Cardinality(SamplePallets(script)) + MaxInserts
    /\ \E w \in workstation_table, side \in Sides, f \in InsertFloors,
          r \in InsertRows, a \in InsertAisles, d \in InsertDeeps :
          pallet_table' = pallet_table \cup
              {Pal(nextPalletId, w.workstation_id, side, f, r, a, d)}
    /\ nextPalletId' = nextPalletId + 1
    /\ UNCHANGED <<script, workstation_table, deletes, unitVars, probe, formVars, wcVars, layoutVars, draw, vizVars>>

\* DELETE FROM warehouse_pallet_table WHERE pallet_id = ...
DeletePallet ==
    /\ deletes < MaxDeletes
    /\ \E p \in pallet_table : pallet_table' = pallet_table \ {p}
    /\ deletes' = deletes + 1
    /\ UNCHANGED <<script, workstation_table, nextPalletId, unitVars, probe, formVars, wcVars, layoutVars, draw, vizVars>>

NextDb == InsertPallet \/ DeletePallet

(***************************************************************************)
(* Part 2: JavaScript numbers and the unit converters.                     *)
(*                                                                         *)
(* A number is a decimal m * 10^-e with m an unbounded natural, kept as    *)
(* its decimal digits, least significant first (no leading zero digit, so  *)
(* zero is << >>), and e the number of fractional digits (no trailing      *)
(* fractional zero).  Products are exact: the rounding of IEEE doubles is  *)
(* not modelled, only the values of the constants the code writes.         *)
(***************************************************************************)
RECURSIVE FromInt(_)
FromInt(n) == IF n = 0 THEN << >> ELSE <<n % 10>> \o FromInt(n \div 10)

RECURSIVE AddD(_, _, _)
AddD(a, b, c) ==
    IF a = << >> /\ b = << >>
    THEN IF c = 0 THEN << >> ELSE <<c>>
    ELSE LET x == IF a = << >> THEN 0 ELSE Head(a)
             y == IF b = << >> THEN 0 ELSE Head(b)
             s == x + y + c
         IN <<s % 10>> \o AddD(IF a = << >> THEN << >> ELSE Tail(a),
                               IF b = << >> THEN << >> ELSE Tail(b),
                               s \div 10)

RECURSIVE MulDigit(_, _, _)
MulDigit(a, d, c) ==
    IF a = << >>
    THEN IF c = 0 THEN << >> ELSE <<c>>
    ELSE LET s == Head(a) * d + c
         IN <<s % 10>> \o MulDigit(Tail(a), d, s \div 10)

ShiftD(a) == IF a = << >> THEN << >> ELSE <<0>> \o a

RECURSIVE MulD(_, _)
MulD(a, b) ==
    IF a = << >> \/ b = << >>
    THEN << >>
    ELSE AddD(IF Head(b) = 0 THEN << >> ELSE MulDigit(a, Head(b), 0),
              ShiftD(MulD(a, Tail(b))), 0)

\* The values a JavaScript expression of the converters can have.
JsNumber(m, e) == [k |-> "number", m |-> m, e |-> e]
NaN         == [k |-> "NaN", m |-> << >>, e |-> 0]
Undefined   == [k |-> "undefined", m |-> << >>, e |-> 0]
JsObject    == [k |-> "object", m |-> << >>, e |-> 0]

RECURSIVE Norm(_, _)
Norm(m, e) ==
    IF m = << >> THEN JsNumber(<< >>, 0)
    ELSE IF e > 0 /\ Head(m) = 0 THEN Norm(Tail(m), e - 1)
    ELSE JsNumber(m, e)

\* The literal written n * 10^-e: Dec(3048, 2) is 30.48.
Dec(n, e) == Norm(FromInt(n), e)
Num(n) == Dec(n, 0)

\* x * y: NaN unless both are numbers (undefined, an object or a function
\* converts to NaN).
JsMul(x, y) ==
    IF x.k = "number" /\ y.k = "number"
    THEN Norm(MulD(x.m, y.m), x.e + y.e)
    ELSE NaN

\* x || y: y when x is falsy (undefined, NaN, 0), else x.
JsOr(x, y) ==
    IF x.k \in {"undefined", "NaN"} \/ (x.k = "number" /\ x.m = << >>)
    THEN y ELSE x

\* Property names every object literal inherits from Object.prototype.
ObjectPrototypeKeys ==
    {"constructor", "toString", "valueOf", "hasOwnProperty", "__proto__"}

\* table[key] on an object literal: the own property, else the inherited
\* one (a function or an object), else undefined.
JsLookup(table, key) ==
    IF key \in DOMAIN table THEN table[key]
    ELSE IF key \in ObjectPrototypeKeys THEN JsObject
    ELSE Undefined

\* The unit strings the converters are applied to.
UnitStrings ==
    {"cm", "m", "mm", "ft", "in", "yd", "kg", "lbs", "g", "t", "oz",
     "M", "CM", "Ft", "xyz", "constructor"}

\* String.prototype.toLowerCase on the unit strings.
ToLowerCase(u) ==
    CASE u = "M" -> "m"
      [] u = "CM" -> "cm"
      [] u = "Ft" -> "ft"
      [] OTHER -> u

\* --- PalletConfigComponent
lengthUnits == {"cm", "m", "mm", "ft", "in"}
weightUnits == {"kg", "lbs", "g", "t", "oz"}

PalletConfig_toCmConversions ==
    [cm |-> Dec(1, 0), m |-> Dec(100, 0), mm |-> Dec(1, 1),
     ft |-> Dec(3048, 2), in |-> Dec(254, 2)]

PalletConfig_toKgConversions ==
    [kg |-> Dec(1, 0), lbs |-> Dec(453592, 6)]

PalletConfig_fromCmConversions ==
    [cm |-> Dec(1, 0), m |-> Dec(1, 2), mm |-> Dec(10, 0),
     ft |-> Dec(328084, 7), in |-> Dec(393701, 6)]

PalletConfig_fromKgConversions ==
    [kg |-> Dec(1, 0), lbs |-> Dec(220462, 5)]

\* return value * (conversions[unit] || 1);
PalletConfig_convertToCm(value, unit) ==
    JsMul(value, JsOr(JsLookup(PalletConfig_toCmConversions, unit), Num(1)))

PalletConfig_convertToKg(value, unit) ==
    JsMul(value, JsOr(JsLookup(PalletConfig_toKgConversions, unit), Num(1)))

PalletConfig_convertFromCm(value, unit) ==
    JsMul(value, JsOr(JsLookup(PalletConfig_fromCmConversions, unit), Num(1)))

PalletConfig_convertFromKg(value, unit) ==
    JsMul(value, JsOr(JsLookup(PalletConfig_fromKgConversions, unit), Num(1)))

\* --- WorkstationConfigComponent
WorkstationConfig_conversions ==
    [cm |-> Dec(1, 0), m |-> Dec(100, 0), mm |-> Dec(1, 1),
     ft |-> Dec(3048, 2), in |-> Dec(254, 2)]

WorkstationConfig_convertToCm(value, unit) ==
    JsMul(value, JsOr(JsLookup(WorkstationConfig_conversions, unit), Num(1)))

\* --- VisualizationComponent
Visualization_factors ==
    [cm |-> Dec(1, 0), m |-> Dec(100, 0), mm |-> Dec(1, 1),
     ft |-> Dec(3048, 2), in |-> Dec(254, 2), yd |-> Dec(9144, 2)]

\* return factors[unit?.toLowerCase()] || 1;
Visualization_getUnitConversionFactor(unit) ==
    JsOr(JsLookup(Visualization_factors, ToLowerCase(unit)), Num(1))

\* --- WarehouseVisualizerComponent
WarehouseVisualizer_factorsWrongFt ==
    [cm |-> Dec(1, 0), m |-> Dec(100, 0), mm |-> Dec(1, 1),
     ft |-> Dec(305, 1), in |-> Dec(254, 2)]

WarehouseVisualizer_factors ==
    [cm |-> Dec(1, 0), m |-> Dec(100, 0), mm |-> Dec(1, 1),
     ft |-> Dec(3048, 2), in |-> Dec(254, 2)]

WarehouseVisualizer_getUnitConversionFactor(unit) ==
    JsOr(JsLookup(WarehouseVisualizer_factors, ToLowerCase(unit)), Num(1))

(***************************************************************************)
(* The converters applied to one input (value, unit).                      *)
(***************************************************************************)
ProbeOf(v, u, applied) ==
    [value |-> Num(v), unit |-> u, applied |-> applied,
     toCm   |-> IF applied THEN PalletConfig_convertToCm(Num(v), u) ELSE Undefined,
     toKg   |-> IF applied THEN PalletConfig_convertToKg(Num(v), u) ELSE Undefined,
     fromCm |-> IF applied THEN PalletConfig_convertFromCm(Num(v), u) ELSE Undefined,
     fromKg |-> IF applied THEN PalletConfig_convertFromKg(Num(v), u) ELSE Undefined,
     wsToCm |-> IF applied THEN WorkstationConfig_convertToCm(Num(v), u) ELSE Undefined,
     vizFactor |-> IF applied THEN Visualization_getUnitConversionFactor(u)
                   ELSE Undefined,
     whFactor  |-> IF applied THEN WarehouseVisualizer_getUnitConversionFactor(u)
                   ELSE Undefined]

IdleProbe == ProbeOf(0, "cm", FALSE)

InitProbe == \E v \in 0..MaxProbeValue, u \in UnitStrings : probe = ProbeOf(v, u, FALSE)

ApplyConverters ==
    /\ ~probe.applied
    /\ \E v \in 0..MaxProbeValue :
          /\ probe.value = Num(v)
          /\ probe' = ProbeOf(v, probe.unit, TRUE)
    /\ UNCHANGED <<dbVars, unitVars, formVars, wcVars, layoutVars, draw, vizVars>>

(***************************************************************************)
(* Part 3: PalletConfigComponent, the pallet form.                         *)
(***************************************************************************)
\* The pallets the parent components create and hand to the form:
\* WarehouseVisualizerComponent.addPallet and
\* WorkstationConfigComponent.onAddPallet.
NewPallets ==
    { [length_cm |-> Num(100), width_cm |-> Num(100), height_cm |-> Num(15),
       weight |-> Num(1200)],
      [length_cm |-> Num(120), width_cm |-> Num(80), height_cm |-> Num(15),
       weight |-> Num(500)] }

\* Values a user types into a display field.
TypedValues == {Num(0), Num(250)}

Fields == {"length", "width", "height", "weight"}

\* ngOnInit
InitUnits ==
    /\ pallet \in NewPallets
    /\ displayLength = pallet.length_cm
    /\ displayWidth = pallet.width_cm
    /\ displayHeight = pallet.height_cm
    /\ displayWeight = pallet.weight
    /\ currentLengthUnit = "cm"
    /\ currentWidthUnit = "cm"
    /\ currentHeightUnit = "cm"
    /\ currentWeightUnit = "kg"
    /\ formOps = 0

IdleUnits ==
    /\ pallet = [length_cm |-> Num(100), width_cm |-> Num(100),
                 height_cm |-> Num(15), weight |-> Num(1200)]
    /\ displayLength = pallet.length_cm
    /\ displayWidth = pallet.width_cm
    /\ displayHeight = pallet.height_cm
    /\ displayWeight = pallet.weight
    /\ currentLengthUnit = "cm"
    /\ currentWidthUnit = "cm"
    /\ currentHeightUnit = "cm"
    /\ currentWeightUnit = "kg"
    /\ formOps = 0

\* onPalletChange, on the display values and units given: the pallet emitted.
onPalletChange(dl, dw, dh, dwt, ul, uw, uh, uwt) ==
    [length_cm |-> PalletConfig_convertToCm(dl, ul),
     width_cm  |-> PalletConfig_convertToCm(dw, uw),
     height_cm |-> PalletConfig_convertToCm(dh, uh),
     weight    |-> PalletConfig_convertToKg(dwt, uwt)]

\* onUnitChange(field, unit), with its trailing onPalletChange.
onUnitChange ==
    /\ formOps < MaxFormOps
    /\ formOps' = formOps + 1
    /\ \E field \in Fields :
        \E unit \in (IF field = "weight" THEN weightUnits ELSE lengthUnits) :
          /\ displayLength' = IF field = "length"
                THEN PalletConfig_convertFromCm(pallet.length_cm, unit)
                ELSE displayLength
          /\ currentLengthUnit' = IF field = "length" THEN unit ELSE currentLengthUnit
          /\ displayWidth' = IF field = "width"
                THEN PalletConfig_convertFromCm(pallet.width_cm, unit)
                ELSE displayWidth
          /\ currentWidthUnit' = IF field = "width" THEN unit ELSE currentWidthUnit
          /\ displayHeight' = IF field = "height"
                THEN PalletConfig_convertFromCm(pallet.height_cm, unit)
                ELSE displayHeight
          /\ currentHeightUnit' = IF field = "height" THEN unit ELSE currentHeightUnit
          /\ displayWeight' = IF field = "weight"
                THEN PalletConfig_convertFromKg(pallet.weight, unit)
                ELSE displayWeight
          /\ currentWeightUnit' = IF field = "weight" THEN unit ELSE currentWeightUnit
    /\ pallet' = onPalletChange(displayLength', displayWidth', displayHeight',
                                displayWeight', currentLengthUnit',
                                currentWidthUnit', currentHeightUnit',
                                currentWeightUnit')
    /\ UNCHANGED <<dbVars, probe, formVars, wcVars, layoutVars, draw, vizVars>>

\* The user types a value into one display field (two-way binding), which
\* runs onPalletChange.
TypeValue ==
    /\ formOps < MaxFormOps
    /\ formOps' = formOps + 1
    /\ \E field \in Fields, v \in TypedValues :
          /\ displayLength' = IF field = "length" THEN v ELSE displayLength
          /\ displayWidth' = IF field = "width" THEN v ELSE displayWidth
          /\ displayHeight' = IF field = "height" THEN v ELSE displayHeight
          /\ displayWeight' = IF field = "weight" THEN v ELSE displayWeight
    /\ pallet' = onPalletChange(displayLength', displayWidth', displayHeight',
                                displayWeight', currentLengthUnit,
                                currentWidthUnit, currentHeightUnit,
                                currentWeightUnit)
    /\ UNCHANGED <<currentLengthUnit, currentWidthUnit, currentHeightUnit,
                   currentWeightUnit, dbVars, probe, formVars, wcVars, layoutVars, draw, vizVars>>

NextUnits == onUnitChange \/ TypeValue

(***************************************************************************)
(* Part 4: WarehouseVisualizerComponent, the workstation list.             *)
(*                                                                         *)
(* A side configuration keeps the fields the gap arrays depend on; the     *)
(* four wall gaps and deep_gaps, which no operation below reads, are left  *)
(* out.  JavaScript arrays are sequences (index i of the code is i + 1).   *)
(***************************************************************************)
Max(a, b) == IF a >= b THEN a ELSE b
Min(a, b) == IF a <= b THEN a ELSE b

\* createDefaultWorkstation: defaultSideConfig
defaultSideConfig ==
    [num_floors |-> 4, num_rows |-> 4, num_aisles |-> 2,
     custom_gaps |-> << >>, depth |-> 1, wall_gap_unit |-> "cm"]

createDefaultWorkstation ==
    [aisle_space |-> Num(500), aisle_space_unit |-> "cm",
     left_side_config |-> defaultSideConfig,
     right_side_config |-> defaultSideConfig,
     pallets |-> << >>]

palletColors ==
    [wooden |-> "#8B4513", plastic |-> "#1E90FF", metal |-> "#A9A9A9"]

\* this.palletColors[pallet.type] || "#8B4513": the own property, else the
\* property inherited from Object.prototype (a function, which is truthy),
\* else the fallback.
PalletColor(type) ==
    IF type \in DOMAIN palletColors THEN palletColors[type]
    ELSE IF type \in ObjectPrototypeKeys THEN "[function]"
    ELSE "#8B4513"

\* convertGaps(gaps, unit): gaps.map(g => g * getUnitConversionFactor(unit || "cm"))
convertGaps(gaps, unit) ==
    [i \in 1..Len(gaps) |->
        JsMul(gaps[i], WarehouseVisualizer_getUnitConversionFactor(unit))]

SideToConfig(sideConfig) ==
    [sideConfig EXCEPT
        !.custom_gaps = convertGaps(sideConfig.custom_gaps, sideConfig.wall_gap_unit),
        !.wall_gap_unit = "cm"]

\* updateWorkstationConfigs: the value assigned to workstation_configs.
updateWorkstationConfigs(wss) ==
    [i \in 1..Len(wss) |->
        [workstation_index |-> i - 1,
         aisle_space |-> JsMul(JsOr(wss[i].aisle_space, Num(200)),
                               WarehouseVisualizer_getUnitConversionFactor(
                                   wss[i].aisle_space_unit)),
         aisle_space_unit |-> "cm",
         left_side_config |-> SideToConfig(wss[i].left_side_config),
         right_side_config |-> SideToConfig(wss[i].right_side_config),
         pallet_configs |->
            [j \in 1..Len(wss[i].pallets) |->
                [wss[i].pallets[j] EXCEPT !.color = PalletColor(wss[i].pallets[j].type)]]]]

\* Number of gaps = (num_aisles x depth) - 1
requiredGaps(numAisles, depth) == Max(0, (numAisles * depth) - 1)

\* updateAisleGaps without the loop that preserves the existing gaps
PaddedGapsAllDefault(sideConfig) ==
    [i \in 1..requiredGaps(sideConfig.num_aisles, sideConfig.depth) |-> Num(50)]

\* updateAisleGaps: the new custom_gaps of a side configuration.
PaddedGaps(sideConfig) ==
    [i \in 1..requiredGaps(sideConfig.num_aisles, sideConfig.depth) |->
        IF i <= Len(sideConfig.custom_gaps) THEN sideConfig.custom_gaps[i]
        ELSE Num(50)]

SideField(side) == IF side = "left" THEN "left_side_config" ELSE "right_side_config"

SideOf(w, side) == w[SideField(side)]

\* --- warehouse dimensions, layouts and the status line
Dims(l, w, h, m) ==
    [k |-> "dims", length |-> l, width |-> w, height |-> h,
     height_safety_margin |-> m]

\* null (warehouseDimensions before the first update, a layout without
\* warehouse_dimensions)
NullDims == [k |-> "null", length |-> Num(0), width |-> Num(0),
             height |-> Num(0), height_safety_margin |-> Num(0)]

\* warehouseConfig.warehouse_dimensions of the field initialiser, which are
\* also those of the sample warehouse row ('WH-DB-01', ..., 3000, 6000, 1500, 300)
defaultDimensions == Dims(Num(3000), Num(6000), Num(1500), Num(300))

\* A LayoutData value: n tells the layouts of different answers apart.
Layout(n, dims) == [k |-> "layout", n |-> n, warehouse_dimensions |-> dims]

NullLayout == [k |-> "null", n |-> 0, warehouse_dimensions |-> NullDims]

\* updateWarehouseDimensions: the value assigned to warehouseDimensions
updateWarehouseDimensions(dim) ==
    Dims(dim.length, dim.width, dim.height, dim.height_safety_margin)

\* The layouts an answer of the server may carry for a configuration of
\* dimensions dim (an input: the server is not part of these sources): the
\* configured dimensions, dimensions the server resolved differently, or no
\* warehouse_dimensions at all.
LayoutAnswers(n, dim) ==
    { Layout(n, updateWarehouseDimensions(dim)),
      Layout(n, Dims(dim.length, dim.width,
                     JsMul(dim.height, Num(2)), dim.height_safety_margin)),
      Layout(n, NullDims) }

\* An HttpErrorResponse that is no error (the request did not fail).
NoError == [client |-> FALSE, status |-> "200", message |-> "", detail |-> "",
            eventMessage |-> ""]

\* The answer to request r: failed with error, or not failed.
Answer(r, failed, error) ==
    [kind |-> r.kind, n |-> r.n, failed |-> failed, error |-> error]

NoAnswer == [kind |-> "none", n |-> 0, failed |-> FALSE, error |-> NoError]

\* The sample pallets of workstation 1 and 2 as the database answer carries
\* them: type and color as stored, the position as stored (0-based).
DbPallet(type, color, side, f, r, c, d) ==
    [type |-> type, color |-> color,
     position |-> [floor |-> f, row |-> r, col |-> c, depth |-> d, side |-> side]]

\* The configuration getWarehouseFromDb answers with, for the sample rows of
\* the schema script: what the (absent) backend sends is an input here.
LoadedConfigs ==
    { [num_workstations |-> 2,
       warehouse_dimensions |-> defaultDimensions,
       workstation_configs |->
          << [workstation_index |-> 0, aisle_space |-> Num(500),
              aisle_space_unit |-> "cm",
              left_side_config |->
                 [num_floors |-> 4, num_rows |-> 4, num_aisles |-> 2,
                  custom_gaps |-> <<Num(50)>>, depth |-> 1, wall_gap_unit |-> "cm"],
              right_side_config |->
                 [num_floors |-> 4, num_rows |-> 4, num_aisles |-> 1,
                  custom_gaps |-> <<Num(0)>>, depth |-> 2, wall_gap_unit |-> "cm"],
              pallet_configs |->
                 << DbPallet("Wooden", "#8B4513", "left", 0, 0, 0, 0),
                    DbPallet("Plastic", "#1E90FF", "left", 1, 0, 0, 0) >>],
             [workstation_index |-> 1, aisle_space |-> Num(500),
              aisle_space_unit |-> "cm",
              left_side_config |->
                 [num_floors |-> 3, num_rows |-> 5, num_aisles |-> 2,
                  custom_gaps |-> <<Num(50)>>, depth |-> 2,
                  wall_gap_unit |-> "cm"],
              right_side_config |->
                 [num_floors |-> 3, num_rows |-> 5, num_aisles |-> 1,
                  custom_gaps |-> <<Num(0)>>, depth |-> 2, wall_gap_unit |-> "cm"],
              pallet_configs |-> << >>] >>] }

\* The workstation list once constructed: ngOnInit has asked the database
\* and no answer has come yet.
InitForm ==
    /\ dbLoad = "pending"
    /\ num_workstations = 2
    /\ workstation_configs = << >>
    /\ workstations = << >>
    /\ previousNumWorkstations = 0
    /\ formSteps = 0
    /\ countSteps = 0
    /\ countLast = "ngOnInit"

\* The layout fields once constructed; loadFromDatabase has set the status.
InitLayout ==
    /\ warehouse_dimensions = defaultDimensions
    /\ layoutData = NullLayout
    /\ warehouseDimensions = NullDims
    /\ statusMessage = <<"Loading from Database...">>
    /\ requests = {}
    /\ lastAnswer = NoAnswer
    /\ layoutSteps = 0

\* loadFromDatabase, next: with response.success && response.config
DbLoadSuccess ==
    /\ dbLoad = "pending"
    /\ dbLoad' = "done"
    /\ \E config \in LoadedConfigs :
          /\ num_workstations' = config.num_workstations
          /\ workstation_configs' = config.workstation_configs
          /\ warehouse_dimensions' = config.warehouse_dimensions
          /\ warehouseDimensions' = updateWarehouseDimensions(config.warehouse_dimensions)
          \* mapConfigToUIWorkstations
          /\ workstations' =
                [i \in 1..Len(config.workstation_configs) |->
                    [aisle_space |-> config.workstation_configs[i].aisle_space,
                     aisle_space_unit |-> config.workstation_configs[i].aisle_space_unit,
                     left_side_config |-> config.workstation_configs[i].left_side_config,
                     right_side_config |-> config.workstation_configs[i].right_side_config,
                     pallets |-> config.workstation_configs[i].pallet_configs]]
          /\ previousNumWorkstations' = Len(config.workstation_configs)
          /\ \E layout \in LayoutAnswers(0, config.warehouse_dimensions) :
                layoutData' = layout
    /\ statusMessage' = <<"Loaded from Database">>
    /\ UNCHANGED <<formSteps, countSteps, countLast, requests, lastAnswer, layoutSteps, dbVars, unitVars, probe, wcVars, draw, vizVars>>

\* loadFromDatabase, next: an answer without success or without config
\* changes nothing.
DbLoadEmpty ==
    /\ dbLoad = "pending"
    /\ dbLoad' = "done"
    /\ UNCHANGED <<num_workstations, workstation_configs, workstations,
                   previousNumWorkstations, formSteps, countSteps, countLast, layoutVars,
                   dbVars, unitVars, probe, wcVars, draw, vizVars>>

\* loadFromDatabase, error: num_workstations = 2 and initializeWorkstations
DbLoadError ==
    /\ dbLoad = "pending"
    /\ dbLoad' = "done"
    /\ statusMessage' = <<"Failed to load from DB. Using defaults.">>
    /\ num_workstations' = 2
    /\ workstations' = [i \in 1..num_workstations' |-> createDefaultWorkstation]
    /\ workstation_configs' = updateWorkstationConfigs(workstations')
    /\ warehouseDimensions' = updateWarehouseDimensions(warehouse_dimensions)
    /\ UNCHANGED <<previousNumWorkstations, formSteps, countSteps, countLast,
                   warehouse_dimensions,
                   layoutData, requests, lastAnswer, layoutSteps,
                   dbVars, unitVars, probe, wcVars, draw, vizVars>>

\* The user types a number of workstations (two-way binding).
SetNumWorkstations ==
    /\ countSteps < MaxCountSteps
    /\ countSteps' = countSteps + 1
    /\ countLast' = "num_workstations"
    /\ \E n \in 0..MaxWorkstations : num_workstations' = n
    /\ UNCHANGED <<dbLoad, workstation_configs, workstations,
                   previousNumWorkstations, formSteps, dbVars, unitVars, probe, wcVars, layoutVars, draw, vizVars>>

\* adjustWorkstationsArray(newNumWorkstations): the new workstation array
adjustWorkstationsArray(wss, n) ==
    [i \in 1..n |-> IF i <= Len(wss) THEN wss[i] ELSE createDefaultWorkstation]

onNumWorkstationsBlur ==
    /\ countSteps < MaxCountSteps
    /\ countSteps' = countSteps + 1
    /\ countLast' = "onNumWorkstationsBlur"
    /\ IF num_workstations # previousNumWorkstations /\ num_workstations > 0
       THEN /\ workstations' = adjustWorkstationsArray(workstations, num_workstations)
            /\ workstation_configs' = updateWorkstationConfigs(workstations')
            /\ previousNumWorkstations' = num_workstations
       ELSE UNCHANGED <<workstations, workstation_configs, previousNumWorkstations>>
    /\ UNCHANGED <<dbLoad, num_workstations, formSteps, dbVars, unitVars, probe, wcVars,
                   layoutVars, draw, vizVars>>

\* addPallet(workstationIndex)
addPallet ==
    /\ formSteps < MaxFormSteps
    /\ formSteps' = formSteps + 1
    /\ \E i \in 1..Len(workstations) :
          workstations' = [workstations EXCEPT ![i].pallets =
              Append(@, [type |-> "wooden", color |-> palletColors["wooden"],
                         position |-> [floor |-> 1, row |-> 1, col |-> 1,
                                       depth |-> 1, side |-> "left"]])]
    /\ workstation_configs' = updateWorkstationConfigs(workstations')
    /\ UNCHANGED <<dbLoad, num_workstations, previousNumWorkstations,
                   countSteps, countLast, dbVars, unitVars, probe, wcVars, layoutVars, draw, vizVars>>

\* splice(index, 1) on an array
Splice1(arr, j) == [k \in 1..(Len(arr) - 1) |-> IF k < j THEN arr[k] ELSE arr[k + 1]]

\* removePallet(workstationIndex, palletIndex)
removePallet ==
    /\ formSteps < MaxFormSteps
    /\ formSteps' = formSteps + 1
    /\ \E i \in 1..Len(workstations) : \E j \in 1..Len(workstations[i].pallets) :
          workstations' = [workstations EXCEPT ![i].pallets = Splice1(@, j)]
    /\ workstation_configs' = updateWorkstationConfigs(workstations')
    /\ UNCHANGED <<dbLoad, num_workstations, previousNumWorkstations,
                   countSteps, countLast, dbVars, unitVars, probe, wcVars, layoutVars, draw, vizVars>>

\* The user sets num_aisles or depth of one side (two-way binding), which
\* runs onSideConfigChange(workstationIndex, side), that is updateAisleGaps.
onSideConfigChange ==
    /\ formSteps < MaxFormSteps
    /\ formSteps' = formSteps + 1
    /\ \E i \in 1..Len(workstations), side \in Sides,
          a \in 1..MaxAisles, d \in 1..MaxDepth :
          LET edited == [SideOf(workstations[i], side) EXCEPT
                            !.num_aisles = a, !.depth = d]
          IN workstations' = [workstations EXCEPT ![i][SideField(side)] =
                                 [edited EXCEPT !.custom_gaps = PaddedGaps(edited)]]
    /\ workstation_configs' = updateWorkstationConfigs(workstations')
    /\ UNCHANGED <<dbLoad, num_workstations, previousNumWorkstations,
                   countSteps, countLast, dbVars, unitVars, probe, wcVars, layoutVars, draw, vizVars>>

\* x || 1 on a count
OrOne(x) == IF x = 0 THEN 1 ELSE x

\* Limits helpers of WarehouseVisualizerComponent
getMaxFloors(w) ==
    Max(OrOne(w.left_side_config.num_floors), OrOne(w.right_side_config.num_floors))

getMaxRows(w) ==
    Max(OrOne(w.left_side_config.num_rows), OrOne(w.right_side_config.num_rows))

getMaxAisles(w) ==
    Max(OrOne(w.left_side_config.num_aisles) * OrOne(w.left_side_config.depth),
        OrOne(w.right_side_config.num_aisles) * OrOne(w.right_side_config.depth))

getMaxDepth(w) ==
    Max(OrOne(w.left_side_config.depth), OrOne(w.right_side_config.depth))

\* PalletConfigComponent: Array.from({ length: max }, (_, i) => i + 1)
getSideOptions == {"left", "right"}
getFloorOptions(maxFloors) == 1..maxFloors
getRowOptions(maxRows) == 1..maxRows
getAisleOptions(maxAisles) == 1..maxAisles
getDepthOptions(maxDepth) == 1..maxDepth

\* The options the user picks in the model: the first and the last of a list.
Ends(options) == {o \in options : \A x \in options : o <= x}
                    \cup {o \in options : \A x \in options : o >= x}

\* PalletConfigComponent.palletTypes
palletTypes ==
    [wooden |-> "#8B4513", plastic |-> "#1E90FF", metal |-> "#A9A9A9"]

\* The pallets the form of pallet p in workstation w can emit after one
\* edit: a type (onTypeChange sets the type's colour) or one position select.
EditedPallets(p, w) ==
    {[p EXCEPT !.type = t, !.color = palletTypes[t]] : t \in DOMAIN palletTypes}
    \cup {[p EXCEPT !.position.side = x] : x \in getSideOptions}
    \cup {[p EXCEPT !.position.floor = x] : x \in Ends(getFloorOptions(getMaxFloors(w)))}
    \cup {[p EXCEPT !.position.row = x] : x \in Ends(getRowOptions(getMaxRows(w)))}
    \cup {[p EXCEPT !.position.col = x] : x \in Ends(getAisleOptions(getMaxAisles(w)))}
    \cup {[p EXCEPT !.position.depth = x] : x \in Ends(getDepthOptions(getMaxDepth(w)))}

\* onPalletChange(workstationIndex, palletIndex, updatedPallet)
WarehouseVisualizer_onPalletChange ==
    /\ formSteps < MaxFormSteps
    /\ formSteps' = formSteps + 1
    /\ \E i \in 1..Len(workstations) : \E j \in 1..Len(workstations[i].pallets) :
         \E updatedPallet \in EditedPallets(workstations[i].pallets[j], workstations[i]) :
            workstations' = [workstations EXCEPT ![i].pallets[j] = updatedPallet]
    /\ workstation_configs' = updateWorkstationConfigs(workstations')
    /\ UNCHANGED <<dbLoad, num_workstations, previousNumWorkstations,
                   countSteps, countLast, dbVars, unitVars, probe, wcVars, layoutVars, draw, vizVars>>

NextForm ==
    \/ DbLoadSuccess
    \/ DbLoadEmpty
    \/ DbLoadError
    \/ addPallet
    \/ removePallet
    \/ WarehouseVisualizer_onPalletChange
    \/ onSideConfigChange

(***************************************************************************)
(* Part 4b: the layout and validation requests of                          *)
(* WarehouseVisualizerComponent, through WarehouseService.                 *)
(*                                                                         *)
(* A text is the sequence of its pieces: the template `Error: ${x}` is     *)
(* <<"Error: ">> \o x.                                                     *)
(***************************************************************************)
\* Detail texts of a server error.
Details == {"custom_gaps length mismatch", "Position out of range"}

\* The HttpErrorResponse values a request can fail with: a server answer
\* with a detail, a server answer without one (detail ""), and a client-side
\* or network error (error.error is an ErrorEvent).
HttpErrors ==
    {[client |-> FALSE, status |-> "400", message |-> "Http failure response",
      detail |-> d, eventMessage |-> ""] : d \in Details}
    \cup {[client |-> FALSE, status |-> "500", message |-> "Http failure response",
           detail |-> "", eventMessage |-> ""],
          [client |-> TRUE, status |-> "0", message |-> "Http failure response",
           detail |-> "", eventMessage |-> "Failed to fetch"]}

\* handleError, the detail ignored
handleErrorNoDetail(error) ==
    IF error.client
    THEN <<"Error: ", error.eventMessage>>
    ELSE <<"Error Code: ", error.status, "\nMessage: ", error.message>>

\* WarehouseService.handleError: the message of the Error it throws
handleError(error) ==
    IF error.client
    THEN <<"Error: ", error.eventMessage>>
    ELSE IF error.detail # ""
    THEN <<error.detail>>
    ELSE <<"Error Code: ", error.status, "\nMessage: ", error.message>>

\* The Error object the subscriber receives: it has a message and no error
\* property.
ThrownError(error) == [message |-> handleError(error)]

\* error.error?.detail || error.message || 'Unknown error', on a thrown Error
GenerateLayoutErrorText(thrown) ==
    IF thrown.message # << >> /\ thrown.message # <<"">>
    THEN thrown.message ELSE <<"Unknown error">>

LayoutFields(layout, dims) == [layoutData |-> layout, warehouseDimensions |-> dims]

\* generateLayout: setStatus, updateWorkstationConfigs,
\* updateWarehouseDimensions, then the request is sent.  The request carries
\* the configuration posted (config), and the layout fields as they were
\* when the handler was called (before) and when the request left (sent).
generateLayout ==
    /\ layoutSteps < MaxRequests
    /\ Cardinality(requests) < MaxInFlight
    /\ layoutSteps' = layoutSteps + 1
    /\ statusMessage' = <<"Generating layout...">>
    /\ workstation_configs' = updateWorkstationConfigs(workstations)
    /\ warehouseDimensions' = updateWarehouseDimensions(warehouse_dimensions)
    /\ requests' = requests \cup
          {[kind |-> "create", n |-> layoutSteps',
            config |-> [num_workstations |-> num_workstations,
                        workstation_configs |-> workstation_configs'],
            before |-> LayoutFields(layoutData, warehouseDimensions),
            sent |-> LayoutFields(layoutData, warehouseDimensions')]}
    /\ UNCHANGED <<dbLoad, num_workstations, workstations, previousNumWorkstations,
                   formSteps, countSteps, countLast, warehouse_dimensions, layoutData, lastAnswer,
                   dbVars, unitVars, probe, wcVars, draw, vizVars>>

\* generateLayout, next
CreateWarehouseNext ==
    /\ \E r \in requests :
          /\ r.kind = "create"
          /\ requests' = requests \ {r}
          /\ lastAnswer' = Answer(r, FALSE, NoError)
          /\ \E layout \in LayoutAnswers(r.n, warehouse_dimensions) :
                /\ layoutData' = layout
                /\ warehouseDimensions' =
                      IF layout.warehouse_dimensions.k # "null"
                      THEN layout.warehouse_dimensions
                      ELSE warehouseDimensions
    /\ statusMessage' = <<"Layout generated successfully">>
    /\ UNCHANGED <<formVars, warehouse_dimensions, layoutSteps,
                   dbVars, unitVars, probe, wcVars, draw, vizVars>>

\* generateLayout, error
CreateWarehouseError ==
    /\ \E r \in requests, error \in HttpErrors :
          /\ r.kind = "create"
          /\ requests' = requests \ {r}
          /\ lastAnswer' = Answer(r, TRUE, error)
          /\ statusMessage' =
                <<"Error: ">> \o GenerateLayoutErrorText(ThrownError(error))
    /\ UNCHANGED <<formVars, warehouse_dimensions, layoutData, warehouseDimensions,
                   layoutSteps, dbVars, unitVars, probe, wcVars, draw, vizVars>>

\* validateConfig: setStatus, then the request is sent.
validateConfig ==
    /\ layoutSteps < MaxRequests
    /\ Cardinality(requests) < MaxInFlight
    /\ layoutSteps' = layoutSteps + 1
    /\ statusMessage' = <<"Validating configuration...">>
    /\ requests' = requests \cup
          {[kind |-> "validate", n |-> layoutSteps',
            config |-> [num_workstations |-> num_workstations,
                        workstation_configs |-> workstation_configs],
            before |-> LayoutFields(layoutData, warehouseDimensions),
            sent |-> LayoutFields(layoutData, warehouseDimensions)]}
    /\ UNCHANGED <<formVars, warehouse_dimensions, layoutData, warehouseDimensions,
                   lastAnswer, dbVars, unitVars, probe, wcVars, draw, vizVars>>

\* validateConfig, next: response.message || "Configuration is valid"
ValidateNext ==
    /\ \E r \in requests, message \in {"", "custom_gaps length mismatch"} :
          /\ r.kind = "validate"
          /\ requests' = requests \ {r}
          /\ lastAnswer' = Answer(r, FALSE, NoError)
          /\ statusMessage' =
                IF message # "" THEN <<message>> ELSE <<"Configuration is valid">>
    /\ UNCHANGED <<formVars, warehouse_dimensions, layoutData, warehouseDimensions,
                   layoutSteps, dbVars, unitVars, probe, wcVars, draw, vizVars>>

\* validateConfig, error
ValidateError ==
    /\ \E r \in requests, error \in HttpErrors :
          /\ r.kind = "validate"
          /\ requests' = requests \ {r}
          /\ lastAnswer' = Answer(r, TRUE, error)
          /\ statusMessage' = <<"Validation failed: ">> \o ThrownError(error).message
    /\ UNCHANGED <<formVars, warehouse_dimensions, layoutData, warehouseDimensions,
                   layoutSteps, dbVars, unitVars, probe, wcVars, draw, vizVars>>

\* clearVisualization
clearVisualization ==
    /\ layoutData # NullLayout
    /\ layoutData' = NullLayout
    /\ statusMessage' = <<"Visualization cleared">>
    /\ UNCHANGED <<formVars, warehouse_dimensions, warehouseDimensions, requests,
                   lastAnswer, layoutSteps, dbVars, unitVars, probe, wcVars, draw, vizVars>>

\* The user types a warehouse length (two-way binding), which runs
\* updateDimensionValue(field).
DimensionInputs == {<<Num(20), "m">>, <<Num(3000), "cm">>}

updateDimensionValue ==
    /\ \E field \in {"length"}, input \in DimensionInputs :
          /\ warehouse_dimensions' =
                [warehouse_dimensions EXCEPT ![field] =
                    JsMul(input[1], WarehouseVisualizer_getUnitConversionFactor(input[2]))]
    /\ warehouseDimensions' = updateWarehouseDimensions(warehouse_dimensions')
    /\ UNCHANGED <<formVars, layoutData, statusMessage, requests, lastAnswer,
                   layoutSteps,
                   dbVars, unitVars, probe, wcVars, draw, vizVars>>

\* The events that set the number of workstations, and the layout requests
\* that send the configuration.
NextCount ==
    \/ DbLoadSuccess
    \/ DbLoadEmpty
    \/ DbLoadError
    \/ SetNumWorkstations
    \/ onNumWorkstationsBlur
    \/ generateLayout
    \/ CreateWarehouseNext
    \/ CreateWarehouseError

NextLayout ==
    \/ DbLoadSuccess
    \/ DbLoadEmpty
    \/ DbLoadError
    \/ generateLayout
    \/ CreateWarehouseNext
    \/ CreateWarehouseError
    \/ validateConfig
    \/ ValidateNext
    \/ ValidateError
    \/ clearVisualization
    \/ updateDimensionValue

(***************************************************************************)
(* Part 5: WorkstationConfigComponent, the aisle gaps of one side.         *)
(***************************************************************************)
\* array[i] of the code (0-based), undefined past the end
JsIndex(arr, i) == IF i + 1 \in 1..Len(arr) THEN arr[i + 1] ELSE Undefined

\* initializeAisleGaps: the new aisleGaps
initializeAisleGaps(cfg) ==
    [k \in 1..Max(0, cfg.num_aisles - 1) |->
        [value |-> JsOr(JsIndex(cfg.custom_gaps, k - 1), Num(20)),
         unit |-> cfg.wall_gap_unit]]

\* aisleGaps.map(gap => this.convertToCm(gap.value, gap.unit))
GapsInCm(gaps) ==
    [k \in 1..Len(gaps) |-> WorkstationConfig_convertToCm(gaps[k].value, gaps[k].unit)]

\* Array.prototype.slice(0, end): a negative end counts from the end
Slice0(arr, end) ==
    LET stop == IF end < 0 THEN Max(0, Len(arr) + end) ELSE Min(end, Len(arr))
    IN [k \in 1..stop |-> arr[k]]

\* The side configurations the parent binds to the component.
BoundAisleConfigs ==
    { defaultSideConfig,
      [num_floors |-> 4, num_rows |-> 4, num_aisles |-> 2,
       custom_gaps |-> <<Num(50)>>, depth |-> 1, wall_gap_unit |-> "cm"],
      [num_floors |-> 3, num_rows |-> 5, num_aisles |-> 2,
       custom_gaps |-> <<Num(0), Num(50), Num(50)>>, depth |-> 2,
       wall_gap_unit |-> "m"] }

\* The events onAisleConfigChange emits, in order.
ChangeEvents == <<"aisleConfigChange", "updateAisleGaps">>

\* ngOnInit
InitWc ==
    /\ aisleConfig \in BoundAisleConfigs
    /\ aisleGaps = initializeAisleGaps(aisleConfig)
    /\ wcLast = [op |-> "ngOnInit", emitted |-> << >>]
    /\ wcSteps = 0

\* if (this.aisleConfig.num_aisles > 0)
CanAddAisle(cfg) == cfg.num_aisles > 0

\* if (this.aisleConfig.num_aisles > 1)
CanRemoveAisleAtOne(cfg) == cfg.num_aisles > 0

CanRemoveAisle(cfg) == cfg.num_aisles > 1

\* addAisleGap: num_aisles++, initializeAisleGaps, onAisleConfigChange
addAisleGap ==
    /\ wcSteps < MaxWcSteps
    /\ wcSteps' = wcSteps + 1
    /\ IF CanAddAisle(aisleConfig)
       THEN LET bumped == [aisleConfig EXCEPT !.num_aisles = @ + 1]
            IN /\ aisleGaps' = initializeAisleGaps(bumped)
               /\ aisleConfig' = [bumped EXCEPT !.custom_gaps = GapsInCm(aisleGaps')]
               /\ wcLast' = [op |-> "addAisleGap", emitted |-> ChangeEvents]
       ELSE /\ UNCHANGED <<aisleConfig, aisleGaps>>
            /\ wcLast' = [op |-> "addAisleGap", emitted |-> << >>]
    /\ UNCHANGED <<dbVars, unitVars, probe, formVars, layoutVars, draw, vizVars>>

\* removeAisleGap: num_aisles--, initializeAisleGaps, onAisleConfigChange
removeAisleGap ==
    /\ wcSteps < MaxWcSteps
    /\ wcSteps' = wcSteps + 1
    /\ IF CanRemoveAisle(aisleConfig)
       THEN LET lowered == [aisleConfig EXCEPT !.num_aisles = @ - 1]
            IN /\ aisleGaps' = initializeAisleGaps(lowered)
               /\ aisleConfig' = [lowered EXCEPT !.custom_gaps = GapsInCm(aisleGaps')]
               /\ wcLast' = [op |-> "removeAisleGap", emitted |-> ChangeEvents]
       ELSE /\ UNCHANGED <<aisleConfig, aisleGaps>>
            /\ wcLast' = [op |-> "removeAisleGap", emitted |-> << >>]
    /\ UNCHANGED <<dbVars, unitVars, probe, formVars, layoutVars, draw, vizVars>>

\* The user types an aisle count (two-way binding), which runs
\* updateAisleCount and its trailing onAisleConfigChange.
updateAisleCount ==
    /\ wcSteps < MaxWcSteps
    /\ wcSteps' = wcSteps + 1
    /\ \E n \in 0..MaxAisles :
          LET oldCount == Len(aisleGaps) + 1
              newCount == n
          IN /\ aisleGaps' =
                   IF newCount > oldCount
                   THEN aisleGaps \o [k \in 1..(newCount - oldCount) |->
                                        [value |-> Num(20),
                                         unit |-> aisleConfig.wall_gap_unit]]
                   ELSE IF newCount < oldCount
                   THEN Slice0(aisleGaps, newCount - 1)
                   ELSE aisleGaps
             /\ aisleConfig' = [aisleConfig EXCEPT !.num_aisles = n,
                                                   !.custom_gaps = GapsInCm(aisleGaps')]
    /\ wcLast' = [op |-> "updateAisleCount", emitted |-> ChangeEvents]
    /\ UNCHANGED <<dbVars, unitVars, probe, formVars, layoutVars, draw, vizVars>>

\* The user edits one gap's value or unit (two-way binding), which runs
\* onAisleConfigChange.
GapValues == {Num(0), Num(3)}

onAisleConfigChange ==
    /\ wcSteps < MaxWcSteps
    /\ wcSteps' = wcSteps + 1
    /\ \E k \in 1..Len(aisleGaps), v \in GapValues, u \in {"cm", "m"} :
          aisleGaps' = [aisleGaps EXCEPT ![k] = [value |-> v, unit |-> u]]
    /\ aisleConfig' = [aisleConfig EXCEPT !.custom_gaps = GapsInCm(aisleGaps')]
    /\ wcLast' = [op |-> "onAisleConfigChange", emitted |-> ChangeEvents]
    /\ UNCHANGED <<dbVars, unitVars, probe, formVars, layoutVars, draw, vizVars>>

NextWc == addAisleGap \/ removeAisleGap \/ updateAisleCount \/ onAisleConfigChange

(***************************************************************************)
(* Part 6: VisualizationComponent.drawPallet.                              *)
(*                                                                         *)
(* Lengths are integers counting tenths of a unit, so that 0.8, 0.9 and    *)
(* 0.6 of a size and the halves of the position are exact.  The cell is    *)
(* the box of drawAisle, centred on the origin of its group: it spans      *)
(* -size/2 .. +size/2 on every axis.                                       *)
(***************************************************************************)
\* Sizes of a pallet axis (0: pallet.dims or the axis is missing, or is 0)
\* and of a cell axis, in whole units.
PalletSizes == {0, 15, 90, 150}
CellSizes == {20, 100}

\* a || b on numbers
OrNumber(a, b) == IF a = 0 THEN b ELSE a

\* const ph = pallet.dims?.height || aisleHeight * 0.6  (in tenths)
PalletExtent(p, cell, tenths) == OrNumber(10 * p, cell * tenths)

\* The mesh drawPallet adds, in tenths: BoxGeometry(min(pw, 0.9 W),
\* min(pl, 0.9 L), min(ph, 0.8 H)) at position (0, 0, -H/2 + ph/2 + 5).
drawPallet(pw, pl, ph, W, L, H) ==
    [width  |-> Min(PalletExtent(pw, W, 8), 9 * W),
     length |-> Min(PalletExtent(pl, L, 8), 9 * L),
     height |-> Min(PalletExtent(ph, H, 6), 8 * H),
     x |-> 0,
     y |-> 0,
     z |-> (0 - 5 * H) + (PalletExtent(ph, H, 6) \div 2) + 50]

NoMesh == [width |-> 0, length |-> 0, height |-> 0, x |-> 0, y |-> 0, z |-> 0]

DrawOf(pw, pl, ph, W, L, H, drawn) ==
    [pw |-> pw, pl |-> pl, ph |-> ph, W |-> W, L |-> L, H |-> H, drawn |-> drawn,
     mesh |-> IF drawn THEN drawPallet(pw, pl, ph, W, L, H) ELSE NoMesh]

IdleDraw == DrawOf(0, 0, 0, 100, 100, 100, FALSE)

InitDraw ==
    \E pw \in PalletSizes, pl \in PalletSizes, ph \in PalletSizes,
       W \in CellSizes, L \in CellSizes, H \in CellSizes :
          draw = DrawOf(pw, pl, ph, W, L, H, FALSE)

\* drawAisle calls drawPallet for a pallet of the aisle.
DrawPalletStep ==
    /\ ~draw.drawn
    /\ draw' = DrawOf(draw.pw, draw.pl, draw.ph, draw.W, draw.L, draw.H, TRUE)
    /\ UNCHANGED <<dbVars, unitVars, probe, formVars, wcVars, layoutVars, vizVars>>

(***************************************************************************)
(* Part 7: VisualizationComponent: the view toggle, the switchView timers, *)
(* the animation loop, ngOnDestroy and the objects of the scene.           *)
(*                                                                         *)
(* The scene is modelled by the number of direct children it holds under   *)
(* each name and by the set of label sprites it holds; a label sprite is   *)
(* its text and the number of the setupEnvironment call that made it.      *)
(***************************************************************************)
EnvNames == {"ground-plane", "grid-helper", "axis-x", "axis-y", "axis-z"}

SceneNames == EnvNames \cup {"warehouse-objects"}

Modes == {"3d", "2d"}

\* value ? "3d" : "2d"
ModeOf(value) == IF value THEN "3d" ELSE "2d"

\* No scene yet (this.scene is undefined before initialize3DView).
NoScene == [created |-> FALSE, objects |-> [n \in SceneNames |-> 0], sprites |-> {}]

\* new THREE.Scene(); the two lights carry no name.
NewScene == [created |-> TRUE, objects |-> [n \in SceneNames |-> 0], sprites |-> {}]

\* const o = scene.getObjectByName(name); if (o) scene.remove(o)
RemoveByName(objects, names) ==
    [n \in SceneNames |->
        IF n \in names /\ objects[n] > 0 THEN objects[n] - 1 ELSE objects[n]]

\* scene.add(o) for one object of each of the names
AddNamed(objects, names) ==
    [n \in SceneNames |-> IF n \in names THEN objects[n] + 1 ELSE objects[n]]

\* The elements of an array
Elements(arr) == {arr[k] : k \in 1..Len(arr)}

\* addAxisIndicators: the three addLabel calls of setupEnvironment number env
AxisLabels(env) ==
    << [text |-> "Width (cm) X", env |-> env],
       [text |-> "Length (cm) Y", env |-> env],
       [text |-> "Height (cm) Z", env |-> env] >>

\* setupEnvironment without this.labelSprites = []
ClearedLabelsKept(labels) == labels

\* this.labelSprites = []
ClearedLabels(labels) == << >>

\* What the rendering methods read and write, threaded through the calls of
\* one handler: r.layout is the layoutData input, r.work collects the
\* rendering work done after ngOnDestroy.
RenderState(layout) ==
    [layout |-> layout, scene |-> scene, labelSprites |-> labelSprites,
     envCount |-> envCount, lastRedraw |-> lastRedraw, work |-> workAfterDestroy]

\* Rendering work is recorded once the component is destroyed.
Work(r, what) == IF destroyed THEN [r EXCEPT !.work = @ \cup {what}] ELSE r

\* setupEnvironment: remove the named helpers and the label sprites, then
\* add a ground plane, a grid, three axes and three labels.
setupEnvironment(r) ==
    LET env == r.envCount + 1
    IN [r EXCEPT
          !.scene.objects = AddNamed(RemoveByName(@, EnvNames), EnvNames),
          !.scene.sprites = (@ \ Elements(r.labelSprites)) \cup Elements(AxisLabels(env)),
          !.labelSprites = ClearedLabels(@) \o AxisLabels(env),
          !.envCount = env]

\* update3DVisualization
update3DVisualization(r) ==
    IF ~r.layout \/ ~r.scene.created THEN r
    ELSE LET cleared == [r EXCEPT !.scene.objects =
                                     RemoveByName(@, {"warehouse-objects"})]
             env == setupEnvironment(cleared)
         IN Work([env EXCEPT !.scene.objects = AddNamed(@, {"warehouse-objects"}),
                             !.lastRedraw = "3d"],
                 "update3DVisualization")

\* update2DVisualization: returns early without layoutData, pixiApp,
\* pixiStage or the canvas.
update2DVisualization(r) ==
    IF ~r.layout \/ pixiApp # "live" \/ ~isViewInitialized THEN r
    ELSE Work([r EXCEPT !.lastRedraw = "2d"], "update2DVisualization")

\* onResize: with the 3D canvas, camera and renderer.setSize; with the 2D
\* canvas, update2DVisualization.  Both canvases exist once the view is
\* initialized.
onResize(r) ==
    IF ~isViewInitialized THEN r
    ELSE update2DVisualization(Work(r, "onResize"))

\* The callback switchView(mode) hands to setTimeout.
SwitchViewTimer(r, mode) ==
    onResize(IF mode = "3d" THEN update3DVisualization(r)
             ELSE update2DVisualization(r))

\* Writes a render state back to the fields.
Rendered(r) ==
    /\ scene' = r.scene
    /\ labelSprites' = r.labelSprites
    /\ envCount' = r.envCount
    /\ lastRedraw' = r.lastRedraw
    /\ workAfterDestroy' = r.work

\* The component once constructed.
InitViz ==
    /\ is3DView = TRUE
    /\ isViewInitialized = FALSE
    /\ viewMode = "3d"
    /\ inputLayoutData = FALSE
    /\ wireframeMode = FALSE
    /\ timers = << >>
    /\ animationFrame = "none"
    /\ renderer = "none"
    /\ pixiApp = "none"
    /\ scene = NoScene
    /\ labelSprites = << >>
    /\ envCount = 0
    /\ destroyed = FALSE
    /\ workAfterDestroy = {}
    /\ lastRedraw = "none"
    /\ lastTimer = "none"
    /\ vizSteps = 0

\* The parent assigns the is3DView input: the setter, which calls
\* switchView once the view is initialized.
SetIs3DView ==
    /\ ~destroyed
    /\ vizSteps < MaxVizSteps
    /\ vizSteps' = vizSteps + 1
    /\ \E value \in BOOLEAN :
          /\ is3DView' = value
          /\ IF isViewInitialized
             THEN /\ viewMode' = ModeOf(value)
                  /\ timers' = Append(timers, ModeOf(value))
             ELSE UNCHANGED <<viewMode, timers>>
    /\ UNCHANGED <<isViewInitialized, inputLayoutData, wireframeMode, animationFrame,
                   renderer, pixiApp, scene, labelSprites, envCount, destroyed,
                   workAfterDestroy, lastRedraw, lastTimer,
                   dbVars, unitVars, probe, formVars, wcVars, layoutVars, draw>>

\* ngAfterViewInit: initialize3DView (scene, renderer, setupEnvironment, the
\* first animate), initialize2DView, isViewInitialized, switchView.
ngAfterViewInit ==
    /\ ~destroyed
    /\ ~isViewInitialized
    /\ isViewInitialized' = TRUE
    /\ renderer' = "live"
    /\ animationFrame' = "requested"
    /\ pixiApp' = "live"
    /\ Rendered(setupEnvironment([RenderState(inputLayoutData) EXCEPT !.scene = NewScene]))
    /\ viewMode' = ModeOf(is3DView)
    /\ timers' = Append(timers, ModeOf(is3DView))
    /\ UNCHANGED <<is3DView, inputLayoutData, wireframeMode, destroyed, lastTimer,
                   vizSteps, dbVars, unitVars, probe, formVars, wcVars, layoutVars, draw>>

\* The parent assigns the layoutData input (a layout, or null), which runs
\* ngOnChanges: the view shown is redrawn.
ngOnChanges ==
    /\ ~destroyed
    /\ vizSteps < MaxVizSteps
    /\ vizSteps' = vizSteps + 1
    /\ \E layout \in BOOLEAN :
          /\ inputLayoutData' = layout
          /\ LET r == RenderState(layout)
             IN Rendered(IF isViewInitialized /\ layout
                         THEN IF viewMode = "3d" THEN update3DVisualization(r)
                              ELSE update2DVisualization(r)
                         ELSE r)
    /\ UNCHANGED <<is3DView, isViewInitialized, viewMode, wireframeMode, timers,
                   animationFrame, renderer, pixiApp, destroyed, lastTimer,
                   dbVars, unitVars, probe, formVars, wcVars, layoutVars, draw>>

\* The timer to run next: setTimeout(f, 0) callbacks run in the order set.
NextTimer(ts) == 1

\* A pending switchView timer fires.  ngOnDestroy clears no timer.
TimerFires ==
    /\ timers # << >>
    /\ LET k == NextTimer(timers)
       IN /\ timers' = [j \in 1..(Len(timers) - 1) |->
                           IF j < k THEN timers[j] ELSE timers[j + 1]]
          /\ lastTimer' = timers[k]
          /\ Rendered(SwitchViewTimer(RenderState(inputLayoutData), timers[k]))
    /\ UNCHANGED <<is3DView, isViewInitialized, viewMode, inputLayoutData,
                   wireframeMode, animationFrame, renderer, pixiApp, destroyed,
                   vizSteps, dbVars, unitVars, probe, formVars, wcVars, layoutVars, draw>>

\* The requested animation frame runs animate: it requests the next frame
\* and renders.
animate ==
    /\ animationFrame = "requested"
    /\ Rendered(Work(RenderState(inputLayoutData), "animate"))
    /\ UNCHANGED <<is3DView, isViewInitialized, viewMode, inputLayoutData,
                   wireframeMode, timers, animationFrame, renderer, pixiApp,
                   destroyed, lastTimer, vizSteps,
                   dbVars, unitVars, probe, formVars, wcVars, layoutVars, draw>>

\* A window resize event: the host listener, which the framework removes
\* when the component is destroyed.
WindowResize ==
    /\ ~destroyed
    /\ vizSteps < MaxVizSteps
    /\ vizSteps' = vizSteps + 1
    /\ Rendered(onResize(RenderState(inputLayoutData)))
    /\ UNCHANGED <<is3DView, isViewInitialized, viewMode, inputLayoutData,
                   wireframeMode, timers, animationFrame, renderer, pixiApp,
                   destroyed, lastTimer,
                   dbVars, unitVars, probe, formVars, wcVars, layoutVars, draw>>

\* toggleWireframe
toggleWireframe ==
    /\ ~destroyed
    /\ vizSteps < MaxVizSteps
    /\ vizSteps' = vizSteps + 1
    /\ wireframeMode' = ~wireframeMode
    /\ Rendered(update3DVisualization(RenderState(inputLayoutData)))
    /\ UNCHANGED <<is3DView, isViewInitialized, viewMode, inputLayoutData, timers,
                   animationFrame, renderer, pixiApp, destroyed, lastTimer,
                   dbVars, unitVars, probe, formVars, wcVars, layoutVars, draw>>

\* ngOnDestroy: cancelAnimationFrame, renderer.dispose, pixiApp.destroy and
\* pixiApp = undefined, the label sprites' materials disposed.
ngOnDestroy ==
    /\ ~destroyed
    /\ destroyed' = TRUE
    /\ animationFrame' = IF animationFrame = "requested" THEN "cancelled"
                         ELSE animationFrame
    /\ renderer' = IF renderer = "live" THEN "disposed" ELSE renderer
    /\ pixiApp' = IF pixiApp = "live" THEN "undefined" ELSE pixiApp
    /\ UNCHANGED <<is3DView, isViewInitialized, viewMode, inputLayoutData,
                   wireframeMode, timers, scene, labelSprites, envCount,
                   workAfterDestroy, lastRedraw, lastTimer, vizSteps,
                   dbVars, unitVars, probe, formVars, wcVars, layoutVars, draw>>

NextViz ==
    \/ SetIs3DView
    \/ ngAfterViewInit
    \/ ngOnChanges
    \/ TimerFires
    \/ animate
    \/ WindowResize
    \/ toggleWireframe
    \/ ngOnDestroy

(***************************************************************************)
(* Specifications.  Each fixes the parts it does not move.                 *)
(***************************************************************************)
IdleDb ==
    /\ script = 1
    /\ workstation_table = SampleWorkstations(script)
    /\ pallet_table = SamplePallets(script)
    /\ nextPalletId = Cardinality(SamplePallets(script)) + 1
    /\ deletes = 0

IdleWc ==
    /\ aisleConfig = defaultSideConfig
    /\ aisleGaps = initializeAisleGaps(aisleConfig)
    /\ wcLast = [op |-> "ngOnInit", emitted |-> << >>]
    /\ wcSteps = 0

\* The schema scripts and the pallet table.
InitSpecDb == InitDb /\ IdleUnits /\ probe = IdleProbe /\ InitForm /\ InitLayout /\ IdleWc
    /\ draw = IdleDraw /\ InitViz
SpecDb == InitSpecDb /\ [][NextDb]_vars

\* The unit converters applied to every input of the bounded sets.
InitSpecConv == IdleDb /\ IdleUnits /\ InitProbe /\ InitForm /\ InitLayout /\ IdleWc
    /\ draw = IdleDraw /\ InitViz
SpecConv == InitSpecConv /\ [][ApplyConverters]_vars

\* The pallet form.
InitSpecUnits == IdleDb /\ InitUnits /\ probe = IdleProbe /\ InitForm /\ InitLayout /\ IdleWc
    /\ draw = IdleDraw /\ InitViz
SpecUnits == InitSpecUnits /\ [][NextUnits]_vars

\* The workstation list of WarehouseVisualizerComponent.
InitSpecForm == IdleDb /\ IdleUnits /\ probe = IdleProbe /\ InitForm /\ InitLayout /\ IdleWc
    /\ draw = IdleDraw /\ InitViz
SpecForm == InitSpecForm /\ [][NextForm]_vars

\* WorkstationConfigComponent.
InitSpecWc == IdleDb /\ IdleUnits /\ probe = IdleProbe /\ InitForm /\ InitLayout /\ InitWc
    /\ draw = IdleDraw /\ InitViz
SpecWc == InitSpecWc /\ [][NextWc]_vars

\* The layout and validation requests.
InitSpecLayout == IdleDb /\ IdleUnits /\ probe = IdleProbe /\ InitForm /\ InitLayout /\ IdleWc
    /\ draw = IdleDraw /\ InitViz
SpecLayout == InitSpecLayout /\ [][NextLayout]_vars

\* The number of workstations of WarehouseVisualizerComponent.
InitSpecCount == IdleDb /\ IdleUnits /\ probe = IdleProbe /\ InitForm /\ InitLayout /\ IdleWc
    /\ draw = IdleDraw /\ InitViz
SpecCount == InitSpecCount /\ [][NextCount]_vars

\* drawPallet applied to every pallet and cell of the bounded sets.
InitSpecDraw == IdleDb /\ IdleUnits /\ probe = IdleProbe /\ InitForm /\ InitLayout /\ IdleWc
    /\ InitDraw /\ InitViz
SpecDraw == InitSpecDraw /\ [][DrawPalletStep]_vars

\* VisualizationComponent: view mode, timers, destruction and scene.
InitSpecViz == IdleDb /\ IdleUnits /\ probe = IdleProbe /\ InitForm /\ InitLayout /\ IdleWc
    /\ draw = IdleDraw /\ InitViz
SpecViz == InitSpecViz /\ [][NextViz]_vars

(***************************************************************************)
(* Claims about the search ids.                                            *)
(***************************************************************************)
\* The pallets sharing p's (workstation, side, floor, row, aisle) key.
KeyGroup(p) ==
    {q \in pallet_table :
        <<q.workstation_id, q.side, q.floor_idx, q.row_idx, q.aisle_idx>>
          = <<p.workstation_id, p.side, p.floor_idx, p.row_idx, p.aisle_idx>>}

Inserted == {p \in pallet_table : p.pallet_id > Cardinality(SamplePallets(script))}

\* C1: the search ids of the first script's query are pairwise distinct over
\* the pallets of the warehouse, also for a left and a right pallet at the
\* same (floor, row, aisle) of one workstation.
C1_AddressesDistinct ==
    \A p, q \in pallet_table :
        p # q => SearchId1(p, pallet_table, workstation_table)
                   # SearchId1(q, pallet_table, workstation_table)

\* C2: inside every key group the P fields are exactly 1..n, and they follow
\* insertion order (pallet_id), after any insertions and deletions.
C2_RanksContiguous ==
    \A p \in pallet_table :
        /\ {SearchId1(q, pallet_table, workstation_table).P : q \in KeyGroup(p)}
              = 1..Cardinality(KeyGroup(p))
        /\ \A q \in KeyGroup(p) :
              (q.pallet_id < p.pallet_id) <=>
                  (SearchId1(q, pallet_table, workstation_table).P
                     < SearchId1(p, pallet_table, workstation_table).P)

\* C2 witness: after an insertion and a deletion, a key group holds two
\* pallets whose pallet_ids are not consecutive.
C2_Witness ==
    /\ deletes > 0
    /\ \E p \in Inserted : \E q \in KeyGroup(p) : q.pallet_id + 1 < p.pallet_id

\* C3: with workstation_index stored 0-based (first script's rows), the two
\* queries give the same address for every pallet.
C3_QueriesAgree ==
    (\E w \in workstation_table : w.workstation_index = 0) =>
        \A p \in pallet_table :
            SearchId1(p, pallet_table, workstation_table)
              = SearchId2(p, pallet_table, workstation_table)

\* C4: an INSERT never changes the search id of a pallet that already
\* existed (and an unchanged table gives unchanged ids).
C4_InsertKeepsAddresses ==
    [][(pallet_table \subseteq pallet_table') =>
          \A p \in pallet_table :
              SearchId1(p, pallet_table', workstation_table')
                = SearchId1(p, pallet_table, workstation_table)]_vars

\* C4 witness: a pallet was inserted into a key group that already held one.
C4_Witness ==
    \E p \in Inserted : \E q \in KeyGroup(p) : q.pallet_id < p.pallet_id

(***************************************************************************)
(* Claims about the unit converters (SpecConv) and the pallet form         *)
(* (SpecUnits).                                                            *)
(***************************************************************************)
\* C7: every converter returns its input unchanged (factor 1) for a unit its
\* table does not hold.
C7_UnknownUnitIsIdentity ==
    probe.applied =>
        /\ probe.unit \notin DOMAIN PalletConfig_toCmConversions
              => probe.toCm = probe.value
        /\ probe.unit \notin DOMAIN PalletConfig_toKgConversions
              => probe.toKg = probe.value
        /\ probe.unit \notin DOMAIN PalletConfig_fromCmConversions
              => probe.fromCm = probe.value
        /\ probe.unit \notin DOMAIN PalletConfig_fromKgConversions
              => probe.fromKg = probe.value
        /\ probe.unit \notin DOMAIN WorkstationConfig_conversions
              => probe.wsToCm = probe.value
        /\ ToLowerCase(probe.unit) \notin DOMAIN Visualization_factors
              => probe.vizFactor = Num(1)
        /\ ToLowerCase(probe.unit) \notin DOMAIN WarehouseVisualizer_factors
              => probe.whFactor = Num(1)

UnitsChanged ==
    <<currentLengthUnit, currentWidthUnit, currentHeightUnit, currentWeightUnit>>'
      # <<currentLengthUnit, currentWidthUnit, currentHeightUnit, currentWeightUnit>>

\* C8: the conversions are inverses, so a change of unit leaves the pallet's
\* stored length_cm, width_cm, height_cm and weight as they were.
C8_UnitChangeKeepsStored == [][UnitsChanged => pallet' = pallet]_vars

\* The four length normalizers give one centimetre value for the probe.
NormalizersAgree ==
    /\ probe.wsToCm = probe.toCm
    /\ JsMul(probe.value, probe.vizFactor) = probe.toCm
    /\ JsMul(probe.value, probe.whFactor) = probe.toCm

\* C9 as stated: the four length normalizers agree on every unit string,
\* upper-case spellings and 'yd' included.
C9_NormalizersAgreeEverywhere == probe.applied => NormalizersAgree

\* C9 amended: the four length normalizers agree on the units cm, m, mm, ft
\* and in, spelled in lower case.
C9_NormalizersAgreeOnLengthUnits ==
    (probe.applied /\ probe.unit \in lengthUnits) => NormalizersAgree

\* C9 witness: the converters were applied to a non-zero value in feet.
C9_Witness ==
    /\ probe.applied
    /\ probe.unit = "ft"
    /\ probe.value = Num(MaxProbeValue)
    /\ probe.toCm = JsMul(Num(MaxProbeValue), Dec(3048, 2))

\* C10: a weight shown in an offered unit other than kg is never stored with
\* factor 1.
C10_OfferedWeightUnitsConverted ==
    (currentWeightUnit \in weightUnits \ {"kg"} /\ displayWeight # Num(0))
        => pallet.weight # displayWeight

(***************************************************************************)
(* Claims about the gap arrays (SpecForm).                                 *)
(***************************************************************************)
GapArityOk(sideConfig) ==
    Len(sideConfig.custom_gaps) = Max(0, sideConfig.num_aisles * sideConfig.depth - 1)

\* C5: in every configuration the front end holds (workstations) or sends
\* (workstation_configs), each side's custom_gaps has length
\* max(0, num_aisles * depth - 1).
C5_GapArity ==
    /\ \A i \in 1..Len(workstations), side \in Sides :
          GapArityOk(SideOf(workstations[i], side))
    /\ \A i \in 1..Len(workstation_configs), side \in Sides :
          GapArityOk(SideOf(workstation_configs[i], side))

\* C6: a side configuration whose gap array does not fit its counts is
\* rejected: no operation on a loaded form changes such an array (pads or
\* truncates it) to make it fit.
C6_MismatchNotRepaired ==
    [][dbLoad' = dbLoad =>
        \A i \in 1..Min(Len(workstations), Len(workstations')), side \in Sides :
            LET old == SideOf(workstations[i], side)
                new == SideOf(workstations'[i], side)
            IN Len(old.custom_gaps) # Max(0, new.num_aisles * new.depth - 1)
                  => new.custom_gaps = old.custom_gaps]_vars

(***************************************************************************)
(* Claims about pallet positions and colours (SpecForm).                   *)
(***************************************************************************)
\* The position of pallet p of workstation w, read as 0-based indices, is
\* inside the grid of the side the pallet is on.
PositionInRange(p, w) ==
    LET side == SideOf(w, p.position.side)
    IN /\ 0 <= p.position.floor /\ p.position.floor < side.num_floors
       /\ 0 <= p.position.row   /\ p.position.row < side.num_rows
       /\ 0 <= p.position.col   /\ p.position.col < side.num_aisles
       /\ 0 <= p.position.depth /\ p.position.depth < side.depth

\* C11: every pallet of every workstation (created by addPallet, edited
\* through the option lists, or loaded) has a position in range for its own
\* side under 0-based indexing.
C11_PositionsInRange ==
    \A i \in 1..Len(workstations) : \A j \in 1..Len(workstations[i].pallets) :
        PositionInRange(workstations[i].pallets[j], workstations[i])

\* The colour the claim gives a type: the colour of wooden, plastic or metal,
\* also when the type is stored capitalised, and the fallback otherwise.
ClaimedColour(type) ==
    CASE type \in {"wooden", "Wooden"}   -> "#8B4513"
      [] type \in {"plastic", "Plastic"} -> "#1E90FF"
      [] type \in {"metal", "Metal"}     -> "#A9A9A9"
      [] OTHER -> "#8B4513"

\* C15: whenever workstation_configs is what updateWorkstationConfigs made of
\* the workstations, every pallet in it carries the colour of its type.
C15_PalletColours ==
    workstation_configs = updateWorkstationConfigs(workstations) =>
        \A i \in 1..Len(workstation_configs) :
            \A j \in 1..Len(workstation_configs[i].pallet_configs) :
                workstation_configs[i].pallet_configs[j].color
                  = ClaimedColour(workstation_configs[i].pallet_configs[j].type)

(***************************************************************************)
(* Claim about drawPallet (SpecDraw).                                      *)
(***************************************************************************)
\* C12: the box drawn is no larger than the cell on any axis, is centred in
\* the cell horizontally, and lies between the cell's floor (-H/2) and top
\* (+H/2); the base of a pallet higher than the box allowed stands where the
\* base of a pallet that fits stands.
C12_PalletInsideCell ==
    draw.drawn =>
        /\ draw.mesh.width <= 10 * draw.W
        /\ draw.mesh.length <= 10 * draw.L
        /\ draw.mesh.height <= 10 * draw.H
        /\ draw.mesh.x = 0 /\ draw.mesh.y = 0
        /\ 2 * draw.mesh.z - draw.mesh.height >= 0 - 10 * draw.H
        /\ 2 * draw.mesh.z + draw.mesh.height <= 10 * draw.H
        /\ 10 * draw.ph > 8 * draw.H =>
              2 * draw.mesh.z - draw.mesh.height = (0 - 10 * draw.H) + 100

(***************************************************************************)
(* Claim about workstation_index (SpecDb for the sample rows).             *)
(***************************************************************************)
\* C13: the workstation_index values of workstation_configs are 0, 1, ...,
\* n-1 in list order, and those of the sample rows of workstation_table are
\* exactly 0 .. n-1.
C13_IndicesContiguous ==
    /\ \A i \in 1..Len(workstation_configs) :
          workstation_configs[i].workstation_index = i - 1
    /\ {w.workstation_index : w \in workstation_table}
          = 0..(Cardinality(workstation_table) - 1)

(***************************************************************************)
(* Claims about the layout and validation requests (SpecLayout).           *)
(***************************************************************************)
\* C16: when a createWarehouse request fails, and nothing but the request's
\* own handler touched the layout fields while it was under way, layoutData
\* and warehouseDimensions are what they were before generateLayout was
\* called with a layout on display.
C16_FailedRequestKeepsLayout ==
    [][\A r \in requests \ requests' :
          (/\ r.kind = "create"
           /\ lastAnswer' # lastAnswer
           /\ lastAnswer'.failed
           /\ r.before.layoutData # NullLayout
           /\ LayoutFields(layoutData, warehouseDimensions) = r.sent) =>
              LayoutFields(layoutData', warehouseDimensions') = r.before]_vars

\* C17: when a request is answered with a server error carrying a detail,
\* the status is 'Error: ' (generateLayout) or 'Validation failed: '
\* (validateConfig) followed by exactly that detail.
C17_DetailShownVerbatim ==
    [][(/\ lastAnswer' # lastAnswer
        /\ lastAnswer'.failed
        /\ ~lastAnswer'.error.client
        /\ lastAnswer'.error.detail # "") =>
          statusMessage' =
             IF lastAnswer'.kind = "create"
             THEN <<"Error: ", lastAnswer'.error.detail>>
             ELSE <<"Validation failed: ", lastAnswer'.error.detail>>]_vars

\* C17 witness: a validation request and a layout request have both failed
\* with a detail, the layout request last, and its detail is in the status.
C17_Witness ==
    /\ lastAnswer.kind = "create"
    /\ lastAnswer.n = 2
    /\ lastAnswer.failed
    /\ lastAnswer.error.detail = "Position out of range"
    /\ statusMessage = <<"Error: ", "Position out of range">>

(***************************************************************************)
(* Claims about the gap arrays of one side.                                *)
(***************************************************************************)
\* C18 (SpecForm): a step that changes a side of a workstation that stays in
\* the list changes one side only, leaves its num_floors, num_rows and
\* wall_gap_unit alone, keeps every gap below min(old length, required
\* length) and sets every new gap to 50.
C18_UpdateAisleGapsFrame ==
    [][(dbLoad' = dbLoad /\ Len(workstations') = Len(workstations)) =>
        \A i \in 1..Len(workstations) :
          /\ workstations'[i].aisle_space = workstations[i].aisle_space
          /\ workstations'[i].aisle_space_unit = workstations[i].aisle_space_unit
          /\ \A side \in Sides :
              LET old == SideOf(workstations[i], side)
                  new == SideOf(workstations'[i], side)
              IN new # old =>
                  /\ new.num_floors = old.num_floors
                  /\ new.num_rows = old.num_rows
                  /\ new.wall_gap_unit = old.wall_gap_unit
                  /\ workstations'[i].pallets = workstations[i].pallets
                  /\ Len(new.custom_gaps) = Max(0, new.num_aisles * new.depth - 1)
                  /\ \A k \in 1..Len(new.custom_gaps) :
                        new.custom_gaps[k] =
                           IF k <= Len(old.custom_gaps) THEN old.custom_gaps[k]
                           ELSE Num(50)
                  /\ \A j \in 1..Len(workstations), other \in Sides :
                        <<j, other>> # <<i, side>> =>
                           SideOf(workstations'[j], other) = SideOf(workstations[j], other)]_vars

\* C18 witness: a side loaded with the single gap 0 was set to two aisles of
\* depth two: the gap 0 is kept and two gaps of 50 are new.
C18_Witness ==
    \E i \in 1..Len(workstations) :
        /\ workstations[i].right_side_config.num_aisles = 2
        /\ workstations[i].right_side_config.depth = 2
        /\ workstations[i].right_side_config.custom_gaps = <<Num(0), Num(50), Num(50)>>

\* C14 (SpecWc): addAisleGap and removeAisleGap keep num_aisles >= 1, and
\* removeAisleGap at num_aisles = 1 changes neither the configuration nor
\* the gaps and emits nothing.
C14_AislesStayPositive ==
    [][(/\ wcSteps' # wcSteps
        /\ wcLast'.op \in {"addAisleGap", "removeAisleGap"}
        /\ aisleConfig.num_aisles >= 1) =>
          /\ aisleConfig'.num_aisles >= 1
          /\ (wcLast'.op = "removeAisleGap" /\ aisleConfig.num_aisles = 1) =>
                /\ aisleConfig' = aisleConfig
                /\ aisleGaps' = aisleGaps
                /\ wcLast'.emitted = << >>]_vars

\* C14 witness: removeAisleGap has run on a side with one aisle.
C14_Witness ==
    /\ wcLast.op = "removeAisleGap"
    /\ wcLast.emitted = << >>
    /\ aisleConfig.num_aisles = 1

\* C19 (SpecWc): after ngOnInit every gap that custom_gaps holds is copied
\* unchanged, 0 included, and only the missing ones are 20.
C19_GapsCopied ==
    wcLast.op = "ngOnInit" =>
        \A k \in 1..Len(aisleGaps) :
            aisleGaps[k].value =
                IF k <= Len(aisleConfig.custom_gaps) THEN aisleConfig.custom_gaps[k]
                ELSE Num(20)

\* C20 (SpecWc): once custom_gaps holds value x factor for the gaps entered,
\* addAisleGap and removeAisleGap, which edit no gap, leave every non-zero
\* entry they keep as it is.
C20_GapConvertedOnce ==
    [][(/\ wcSteps' # wcSteps
        /\ wcLast'.op \in {"addAisleGap", "removeAisleGap"}
        /\ aisleConfig.custom_gaps = GapsInCm(aisleGaps)) =>
          \A k \in 1..Min(Len(aisleConfig.custom_gaps), Len(aisleConfig'.custom_gaps)) :
              aisleConfig.custom_gaps[k] # Num(0) =>
                  aisleConfig'.custom_gaps[k] = aisleConfig.custom_gaps[k]]_vars

\* C21 (SpecWc): after updateAisleCount aisleGaps has exactly
\* max(0, num_aisles - 1) entries, the entries that survive keep their value
\* and unit in order, and every added entry has value 20.
C21_AisleCountGaps ==
    [][(wcSteps' # wcSteps /\ wcLast'.op = "updateAisleCount") =>
          LET want == Max(0, aisleConfig'.num_aisles - 1)
              kept == Min(Len(aisleGaps), want)
          IN /\ Len(aisleGaps') = want
             /\ \A k \in 1..kept : aisleGaps'[k] = aisleGaps[k]
             /\ \A k \in (kept + 1)..want : aisleGaps'[k].value = Num(20)]_vars

(***************************************************************************)
(* Claims about the number of workstations (SpecCount).                    *)
(***************************************************************************)
\* C22: onNumWorkstationsBlur with num_workstations = n > 0 different from
\* the number of workstations leaves exactly n workstations, the first
\* min(old, n) unchanged and the rest default workstations; with n <= 0 or n
\* equal to the number of workstations it changes neither workstations nor
\* workstation_configs.
C22_BlurAdjustsWorkstations ==
    [][(countSteps' # countSteps /\ countLast' = "onNumWorkstationsBlur") =>
          LET n == num_workstations
              old == Len(workstations)
          IN IF n > 0 /\ n # old
             THEN /\ Len(workstations') = n
                  /\ \A i \in 1..Min(old, n) : workstations'[i] = workstations[i]
                  /\ \A i \in (old + 1)..n : workstations'[i] = createDefaultWorkstation
             ELSE /\ workstations' = workstations
                  /\ workstation_configs' = workstation_configs]_vars

\* C23: once the database has answered and the workstation list is filled,
\* and every edit of num_workstations was followed by onNumWorkstationsBlur,
\* the configuration generateLayout posts has num_workstations equal to the
\* length of its workstation_configs.
C23_CountMatchesConfigs ==
    [][\A r \in requests' \ requests :
          (/\ r.kind = "create"
           /\ dbLoad = "done"
           /\ workstations # << >>
           /\ countLast \in {"ngOnInit", "onNumWorkstationsBlur"}) =>
              r.config.num_workstations = Len(r.config.workstation_configs)]_vars

(***************************************************************************)
(* Claims about VisualizationComponent (SpecViz).                          *)
(***************************************************************************)
\* C24: once the view is initialized, viewMode is "3d" exactly when
\* is3DView is true; and when the last pending switchView timer has run
\* with a layout to draw, the view redrawn last is the one of viewMode,
\* that is of the last assignment.
C24_ViewFollowsToggle ==
    [][/\ isViewInitialized' => ((viewMode' = "3d") <=> is3DView')
       /\ (/\ Len(timers') < Len(timers)
           /\ timers' = << >>
           /\ inputLayoutData
           /\ ~destroyed) => lastRedraw' = viewMode']_vars

\* C25: after ngOnDestroy no body of animate, update3DVisualization,
\* update2DVisualization or onResize runs.
C25_NoWorkAfterDestroy == workAfterDestroy = {}

\* C26: the scene holds at most one object of each name, and once the scene
\* exists labelSprites is the three axis labels of the latest
\* setupEnvironment, which are the only label sprites of the scene.
C26_SceneObjectsDoNotAccumulate ==
    /\ \A n \in SceneNames : scene.objects[n] <= 1
    /\ scene.created =>
          /\ labelSprites = AxisLabels(envCount)
          /\ scene.sprites = Elements(labelSprites)

\* C26 witness: the scene was redrawn by toggleWireframe and by a switchView
\* timer, after the setupEnvironment of initialize3DView.
C26_Witness ==
    /\ wireframeMode
    /\ lastTimer = "3d"
    /\ lastRedraw = "3d"
    /\ envCount >= 3
    /\ scene.objects["warehouse-objects"] = 1

====
